---- MODULE Spec2Model ----
(***************************************************************************)
(* Object storage gateway of the tour-booking application:                 *)
(* server/objectStorage.ts (ObjectStorageService, parseObjectPath,         *)
(* signObjectURL), the object routes of server/routes.ts and the password  *)
(* middleware of server/passwordAuth.ts.                                   *)
(*                                                                         *)
(* Strings of the program are sequences of one-character strings, so that  *)
(* startsWith, endsWith, slice, split and join are computed as JavaScript  *)
(* computes them.  User ids, which the code only compares, are atoms.      *)
(***************************************************************************)
EXTENDS Integers, Sequences, FiniteSets, TLC

VARIABLES env, objects, grants, req, last, arg, googleEnv, objectStorageClient, now,
          users, loginSession

vars == <<env, objects, grants, req, last, arg, googleEnv, objectStorageClient, now,
          users, loginSession>>

(***************************************************************************)
(* Bounds of the model.                                                    *)
(***************************************************************************)
\* how deep a storage URL may carry another storage URL inside its path
MaxNest == 1
\* how many entity ids randomUUID() may mint
MaxIds == 1
\* how many chunks the backend read stream of one download delivers
MaxChunks == 1
\* how many times the clock advances
MaxTicks == 2
\* how many user ids randomUUID() may mint
MaxUserIds == 2

(***************************************************************************)
(* String literals of the source.                                          *)
(***************************************************************************)
Empty == <<>>
Slash == <<"/">>
DotPrivate == <<".", "p", "r", "i", "v", "a", "t", "e">>
PublicMarker == <<"p", "u", "b", "l", "i", "c">>
UploadsDir == <<"/", "u", "p", "l", "o", "a", "d", "s", "/">>
ObjectsPrefix == <<"/", "o", "b", "j", "e", "c", "t", "s", "/">>
ObjectsUploadsPrefix == <<"/", "o", "b", "j", "e", "c", "t", "s", "/", "u", "p", "l", "o", "a", "d", "s", "/">>
GcsApiHost == <<"h", "t", "t", "p", "s", ":", "/", "/", "s", "t", "o", "r", "a", "g", "e", ".", "g", "o", "o", "g", "l", "e", "a", "p", "i", "s", ".", "c", "o", "m", "/">>
GcsCloudHost == <<"h", "t", "t", "p", "s", ":", "/", "/", "s", "t", "o", "r", "a", "g", "e", ".", "c", "l", "o", "u", "d", ".", "g", "o", "o", "g", "l", "e", ".", "c", "o", "m", "/">>

\* values used by the bounded inputs (not literals of the source)
MyBucket == <<"m", "y", "b", "u", "c", "k", "e", "t">>
Other == <<"o", "t", "h", "e", "r">>
Abc123 == <<"a", "b", "c", "1", "2", "3">>
Uploads == <<"u", "p", "l", "o", "a", "d", "s">>
SigQuery == <<"?", "X", "-", "G", "o", "o", "g", "-", "S", "i", "g", "n", "a", "t", "u", "r", "e">>

(***************************************************************************)
(* JavaScript string and array primitives.                                 *)
(***************************************************************************)
StartsWith(s, p) == Len(s) >= Len(p) /\ SubSeq(s, 1, Len(p)) = p

EndsWith(s, p) == Len(s) >= Len(p) /\ SubSeq(s, Len(s) - Len(p) + 1, Len(s)) = p

\* s.slice(n) of a string or an array, n >= 0
Slice(s, n) == SubSeq(s, n + 1, Len(s))

\* index of the first element of s that lies in cs, 0 when there is none
FirstOf(s, cs) ==
    IF \E i \in 1..Len(s) : s[i] \in cs
    THEN CHOOSE i \in 1..Len(s) : s[i] \in cs /\ \A j \in 1..(i - 1) : s[j] \notin cs
    ELSE 0

RECURSIVE Split(_, _)
\* s.split(c) for a one-character separator c
Split(s, c) ==
    LET i == FirstOf(s, {c})
    IN  IF i = 0 THEN <<s>>
        ELSE <<SubSeq(s, 1, i - 1)>> \o Split(Slice(s, i), c)

RECURSIVE Join(_, _)
\* parts.join(sep)
Join(parts, sep) ==
    IF Len(parts) = 0 THEN Empty
    ELSE IF Len(parts) = 1 THEN parts[1]
    ELSE parts[1] \o sep \o Join(Tail(parts), sep)

RECURSIVE DotSegments(_, _, _)
\* the path state of the URL parser: "." is dropped, ".." removes the segment
\* before it, and either one as the last segment leaves an empty segment
DotSegments(segs, i, out) ==
    IF i > Len(segs) THEN out
    ELSE LET s == segs[i]
             tail == IF i = Len(segs) THEN <<Empty>> ELSE <<>>
         IN  IF s = <<".", ".">>
             THEN DotSegments(segs, i + 1,
                      (IF Len(out) > 0 THEN SubSeq(out, 1, Len(out) - 1) ELSE out) \o tail)
             ELSE IF s = <<".">>
             THEN DotSegments(segs, i + 1, out \o tail)
             ELSE DotSegments(segs, i + 1, Append(out, s))

\* new URL(rawPath).pathname for rawPath on one of the two storage hosts:
\* scheme and host are dropped, the path ends at the first "?" or "#", and
\* dot segments are resolved
UrlPathname(rawPath) ==
    LET hostLen == IF StartsWith(rawPath, GcsApiHost)
                   THEN Len(GcsApiHost) - 1 ELSE Len(GcsCloudHost) - 1
        rest == Slice(rawPath, hostLen)
        cut == FirstOf(rest, {"?", "#"})
        path == IF cut = 0 THEN rest ELSE SubSeq(rest, 1, cut - 1)
    IN  Slash \o Join(DotSegments(Split(Slice(path, 1), "/"), 1, <<>>), Slash)

(***************************************************************************)
(* Results: a value, or the error a call throws.                           *)
(***************************************************************************)
Ok(v) == [ok |-> TRUE, val |-> v]

Throw(name, message) == [ok |-> FALSE, name |-> name, message |-> message]

ObjectNotFoundError == Throw("ObjectNotFoundError", "Object not found")

(***************************************************************************)
(* PathCodec: getPrivateObjectDir, parseObjectPath,                        *)
(* normalizeObjectEntityPath.                                              *)
(***************************************************************************)
getPrivateObjectDir ==
    IF env.PRIVATE_OBJECT_DIR = Empty
    THEN Throw("Error", "PRIVATE_OBJECT_DIR not set")
    ELSE Ok(env.PRIVATE_OBJECT_DIR)

\* parseObjectPath with the markers recognised by their first character
parseObjectPathByPattern(path) ==
    LET p == IF StartsWith(path, Slash) THEN path ELSE Slash \o path
        pathParts == Split(p, "/")
    IN  IF Len(pathParts) < 3
        THEN Throw("Error", "Invalid path: must contain at least a bucket name")
        ELSE LET bucketName == pathParts[2]
                 objectName == Join(Slice(pathParts, 2), Slash)
             IN  IF /\ env.DEFAULT_OBJECT_STORAGE_BUCKET_ID # Empty
                    /\ (StartsWith(bucketName, <<".">>) \/ StartsWith(bucketName, <<"p">>))
                 THEN Ok([bucketName |-> env.DEFAULT_OBJECT_STORAGE_BUCKET_ID,
                          objectName |-> bucketName \o Slash \o objectName])
                 ELSE Ok([bucketName |-> bucketName, objectName |-> objectName])

parseObjectPath(path) ==
    LET p == IF StartsWith(path, Slash) THEN path ELSE Slash \o path
        pathParts == Split(p, "/")
    IN  IF Len(pathParts) < 3
        THEN Throw("Error", "Invalid path: must contain at least a bucket name")
        ELSE LET bucketName == pathParts[2]
                 objectName == Join(Slice(pathParts, 2), Slash)
             IN  IF /\ env.DEFAULT_OBJECT_STORAGE_BUCKET_ID # Empty
                    /\ (bucketName = DotPrivate \/ bucketName = PublicMarker)
                 THEN Ok([bucketName |-> env.DEFAULT_OBJECT_STORAGE_BUCKET_ID,
                          objectName |-> bucketName \o Slash \o objectName])
                 ELSE Ok([bucketName |-> bucketName, objectName |-> objectName])

IsStorageUrl(rawPath) ==
    StartsWith(rawPath, GcsApiHost) \/ StartsWith(rawPath, GcsCloudHost)

\* normalizeObjectEntityPath without the slash it appends to the directory
normalizeObjectEntityPathNoSlash(rawPath) ==
    IF ~IsStorageUrl(rawPath) THEN Ok(rawPath)
    ELSE
    LET pathname == UrlPathname(rawPath)
        bucketPrefix == Slash \o env.DEFAULT_OBJECT_STORAGE_BUCKET_ID \o Slash
        rawObjectPath ==
            IF /\ env.DEFAULT_OBJECT_STORAGE_BUCKET_ID # Empty
               /\ StartsWith(pathname, bucketPrefix)
            THEN Slice(pathname, Len(bucketPrefix))
            ELSE pathname
        dir == getPrivateObjectDir
    IN  IF ~dir.ok THEN dir
        ELSE IF ~StartsWith(rawObjectPath, dir.val) THEN Ok(rawObjectPath)
        ELSE Ok(ObjectsPrefix \o Slice(rawObjectPath, Len(dir.val)))

normalizeObjectEntityPath(rawPath) ==
    IF ~IsStorageUrl(rawPath) THEN Ok(rawPath)
    ELSE
    LET pathname == UrlPathname(rawPath)
        bucketPrefix == Slash \o env.DEFAULT_OBJECT_STORAGE_BUCKET_ID \o Slash
        rawObjectPath ==
            IF /\ env.DEFAULT_OBJECT_STORAGE_BUCKET_ID # Empty
               /\ StartsWith(pathname, bucketPrefix)
            THEN Slice(pathname, Len(bucketPrefix))
            ELSE pathname
        dir == getPrivateObjectDir
    IN  IF ~dir.ok THEN dir
        ELSE LET objectEntityDir == IF EndsWith(dir.val, Slash) THEN dir.val
                                    ELSE dir.val \o Slash
             IN  IF ~StartsWith(rawObjectPath, objectEntityDir)
                 THEN Ok(rawObjectPath)
                 ELSE Ok(ObjectsPrefix \o Slice(rawObjectPath, Len(objectEntityDir)))

(***************************************************************************)
(* Configurations (process.env) and bounded inputs.                        *)
(***************************************************************************)
Env(dir, bucket) ==
    [PRIVATE_OBJECT_DIR |-> dir, DEFAULT_OBJECT_STORAGE_BUCKET_ID |-> bucket]

Configs ==
    { Env(Slash \o MyBucket \o Slash \o DotPrivate, Empty),
      Env(Slash \o MyBucket \o Slash \o DotPrivate \o Slash, Empty),
      Env(DotPrivate, MyBucket),
      Env(Slash \o DotPrivate, MyBucket),
      Env(Slash \o MyBucket \o Slash \o DotPrivate, MyBucket),
      Env(Empty, Empty) }

Ids == { <<ToString(i)>> : i \in 1..MaxIds }

Hosts == {GcsApiHost, GcsCloudHost}

PlainBodies ==
    { mid \o d \o rest :
        mid \in {Empty, MyBucket \o Slash},
        d \in {DotPrivate \o Slash, DotPrivate \o Slash \o Slash, Other \o Slash,
               <<".", "/">> \o DotPrivate \o Slash, PublicMarker \o Slash, Empty},
        rest \in {Empty, Uploads \o Slash \o Abc123} }

RECURSIVE Bodies(_)
Bodies(n) ==
    IF n = 0 THEN PlainBodies
    ELSE Bodies(n - 1) \cup
         { mid \o h \o b : mid \in {Empty, MyBucket \o Slash}, h \in Hosts,
                           b \in Bodies(n - 1) }

RawInputs ==
    { pre \o b \o q : pre \in {Empty, Slash, ObjectsPrefix} \cup Hosts,
                      b \in Bodies(MaxNest), q \in {Empty, SigQuery} }

(***************************************************************************)
(* Credentials: the three variables of process.env that select the         *)
(* service-account variant, and the client built from them at startup.     *)
(***************************************************************************)
GoogleTriple == {"GOOGLE_PROJECT_ID", "GOOGLE_CLIENT_EMAIL", "GOOGLE_PRIVATE_KEY"}

ServiceAccount == "ServiceAccount"

SidecarToken == "SidecarToken"

\* new Storage(...): the credentials the client is built with, from the
\* variables that are set when the module is loaded
StorageClientFor(present) ==
    IF present = GoogleTriple THEN ServiceAccount ELSE SidecarToken

\* the test signObjectURL makes at every call
isExternalDeployment == googleEnv = GoogleTriple

\* an external deployment sets the default bucket together with the triple,
\* a Replit deployment sets neither
DeploymentEnv ==
    IF env.DEFAULT_OBJECT_STORAGE_BUCKET_ID # Empty THEN GoogleTriple ELSE {}

\* Date.prototype.toISOString: the instant split into its date-time up to the
\* second and its three digits of milliseconds
toISOString(ms) == [dateTime |-> ms \div 1000, sss |-> ms % 1000]

(***************************************************************************)
(* The users table and the session of a request.                           *)
(***************************************************************************)
Null == [null |-> TRUE]

Undefined == "undefined"

\* the email and the password stand for the two literals of the source
FALLBACK_ADMIN ==
    [email |-> "fallback@example.com", password |-> "fallback-password",
     id |-> "fallback-admin-id"]

\* the column password_hash of a row without one
NoHash == <<>>

\* the SHA-256 digest of the password, as the pair that names it
hashPassword(password) == <<"sha256", password>>

verifyPassword(password, hash) == hashPassword(password) = hash

\* a row of the users table
User(id, email, passwordHash, isAdmin, firstName) ==
    [id |-> id, email |-> email, passwordHash |-> passwordHash, isAdmin |-> isAdmin,
     firstName |-> firstName]

\* the rows of the users table when the server starts
DbUsers ==
    { User("u1", "admin@example.com", hashPassword("secret"), TRUE, "Admin"),
      User("u3", "guide@example.com", hashPassword("secret"), FALSE, "Guide") }

getUser(id) ==
    IF \E u \in users : u.id = id THEN CHOOSE u \in users : u.id = id ELSE Null

\* req.session and the OIDC login of a request
Session(userId, isAdmin, isFallbackAdmin, sub) ==
    [userId |-> userId, isAdmin |-> isAdmin, isFallbackAdmin |-> isFallbackAdmin, sub |-> sub]

Sessions ==
    { Session(Undefined, FALSE, FALSE, Undefined),
      Session("u1", TRUE, FALSE, Undefined),
      Session("u3", TRUE, FALSE, Undefined),
      Session(FALLBACK_ADMIN.id, TRUE, TRUE, Undefined),
      Session(Undefined, FALSE, FALSE, "u2") }

AnonymousSession == Session(Undefined, FALSE, FALSE, Undefined)

(***************************************************************************)
(* State after construction.                                               *)
(***************************************************************************)
NoCall == [op |-> "none"]

NoRequest ==
    [pc |-> "idle", session |-> "none", path |-> Empty, userId |-> "undefined",
     objectFile |-> [null |-> TRUE], canAccess |-> "unset", decidedOn |-> [null |-> TRUE],
     status |-> 0, headersSent |-> FALSE, cacheControl |-> "unset", maxAge |-> "unset",
     bytes |-> 0, res |-> "none", stream |-> "none"]

Init ==
    /\ env \in Configs
    /\ objects = {}
    /\ grants = {}
    /\ req = NoRequest
    /\ last = NoCall
    /\ arg = Empty
    /\ googleEnv = DeploymentEnv
    /\ objectStorageClient = StorageClientFor(googleEnv)
    /\ now = 0
    /\ users = DbUsers
    /\ loginSession = AnonymousSession

\* the PathCodec functions are pure: the string they are applied to is drawn
\* here and the calls below apply them to it
InitCodec ==
    /\ env \in Configs
    /\ objects = {}
    /\ grants = {}
    /\ req = NoRequest
    /\ last = NoCall
    /\ arg \in RawInputs
    /\ googleEnv = DeploymentEnv
    /\ objectStorageClient = StorageClientFor(googleEnv)
    /\ now = 0
    /\ users = DbUsers
    /\ loginSession = AnonymousSession

(***************************************************************************)
(* Calls of the pure PathCodec functions.                                  *)
(***************************************************************************)
Normalize ==
    /\ last' = [op |-> "normalize", in |-> arg, out |-> normalizeObjectEntityPath(arg)]
    /\ UNCHANGED <<env, objects, grants, req, arg, googleEnv, objectStorageClient, now,
                   users, loginSession>>

\* normalize applied to the value a normalize call has just returned
Renormalize ==
    /\ last.op = "normalize"
    /\ last.out.ok
    /\ last' = [op |-> "renormalize", in |-> last.in, first |-> last.out.val,
                out |-> normalizeObjectEntityPath(last.out.val)]
    /\ UNCHANGED <<env, objects, grants, req, arg, googleEnv, objectStorageClient, now,
                   users, loginSession>>

Parse ==
    /\ last' = [op |-> "parse", in |-> arg, out |-> parseObjectPath(arg)]
    /\ UNCHANGED <<env, objects, grants, req, arg, googleEnv, objectStorageClient, now,
                   users, loginSession>>

NextCodec ==
    \/ Normalize
    \/ Renormalize
    \/ Parse

SpecCodec == InitCodec /\ [][NextCodec]_vars

(***************************************************************************)
(* The backend and the ACL policy module (objectAcl.ts, which is not among *)
(* the sources: its functions follow the specification's AclPolicyStore    *)
(* and AccessDecisionEngine).                                              *)
(***************************************************************************)
READ == "read"

WRITE == "write"

Users == {"u1", "u2", "u3"}

\* membership of the one access group of the model
GroupMembers(group) == IF group = "g1" THEN {"u3"} ELSE {}

AclRuleLists == { <<>>, <<[group |-> "g1", permission |-> READ]>> }

Policies ==
    [owner : {"u1", "u2"}, visibility : {"public", "private"}, aclRules : AclRuleLists]

File(bucketName, objectName) == [bucketName |-> bucketName, objectName |-> objectName]

FileOf(o) == File(o.bucketName, o.objectName)

\* file.exists()
Exists(file) == \E o \in objects : FileOf(o) = file

getObjectAclPolicy(file) ==
    IF Exists(file) THEN (CHOOSE o \in objects : FileOf(o) = file).aclPolicy
    ELSE Null

\* the objects of the backend once aclPolicy is attached to file
setObjectAclPolicy(file, aclPolicy) ==
    { IF FileOf(o) = file THEN [o EXCEPT !.aclPolicy = aclPolicy] ELSE o : o \in objects }

isPermissionAllowed(requested, granted) ==
    IF requested = READ THEN granted \in {READ, WRITE} ELSE granted = WRITE

\* canAccessObject with the visibility of the policy left out of the Read rule
canAccessObjectAnyVisibility(userId, objectFile, requestedPermission) ==
    LET aclPolicy == getObjectAclPolicy(objectFile)
    IN  IF aclPolicy = Null THEN FALSE
        ELSE IF requestedPermission = READ THEN TRUE
        ELSE IF userId # Undefined /\ aclPolicy.owner = userId THEN TRUE
        ELSE \E i \in 1..Len(aclPolicy.aclRules) :
                /\ userId \in GroupMembers(aclPolicy.aclRules[i].group)
                /\ isPermissionAllowed(requestedPermission, aclPolicy.aclRules[i].permission)

canAccessObject(userId, objectFile, requestedPermission) ==
    LET aclPolicy == getObjectAclPolicy(objectFile)
    IN  IF aclPolicy = Null THEN FALSE
        ELSE IF aclPolicy.visibility = "public" /\ requestedPermission = READ THEN TRUE
        ELSE IF userId # Undefined /\ aclPolicy.owner = userId THEN TRUE
        ELSE \E i \in 1..Len(aclPolicy.aclRules) :
                /\ userId \in GroupMembers(aclPolicy.aclRules[i].group)
                /\ isPermissionAllowed(requestedPermission, aclPolicy.aclRules[i].permission)

(***************************************************************************)
(* ObjectStorageService.                                                   *)
(***************************************************************************)
\* signRequest with the sidecar's expiry taken in seconds
signRequestSeconds(bucketName, objectName, method, ttlSec) ==
    IF isExternalDeployment
    THEN [variant |-> ServiceAccount, bucketName |-> bucketName, objectName |-> objectName,
          version |-> "v4",
          action |-> IF method = "PUT" THEN "write"
                     ELSE IF method = "DELETE" THEN "delete" ELSE "read",
          expires |-> now + ttlSec * 1000]
    ELSE [variant |-> SidecarToken, bucket_name |-> bucketName, object_name |-> objectName,
          method |-> method,
          expires_at |-> toISOString(now + ttlSec)]

\* what signObjectURL asks of the signer: file.getSignedUrl of the SDK under
\* the service account, the sidecar's signed-object-url otherwise
signRequest(bucketName, objectName, method, ttlSec) ==
    IF isExternalDeployment
    THEN [variant |-> ServiceAccount, bucketName |-> bucketName, objectName |-> objectName,
          version |-> "v4",
          action |-> IF method = "PUT" THEN "write"
                     ELSE IF method = "DELETE" THEN "delete" ELSE "read",
          expires |-> now + ttlSec * 1000]
    ELSE [variant |-> SidecarToken, bucket_name |-> bucketName, object_name |-> objectName,
          method |-> method,
          expires_at |-> toISOString(now + ttlSec * 1000)]

\* what the signer does with a request: it signs; it answers without
\* success (the sidecar's response is not ok, or the SDK rejects); it cannot be
\* reached; the sidecar answers with success and a body without signed_url
SignerOutcomes == {"signed", "rejected", "unreachable", "unsigned"}

\* the value undefined where a string is expected
UndefinedUrl == <<"undefined">>

\* signObjectURL: the signed URL of the backend for one method on one object
signObjectURL(bucketName, objectName, method, ttlSec, signer) ==
    IF signer = "signed"
    THEN Ok(GcsApiHost \o bucketName \o Slash \o objectName \o SigQuery)
    ELSE IF isExternalDeployment
    THEN Throw("Error", "Failed to sign object URL")
    ELSE IF signer = "rejected"
    THEN Throw("Error", "Failed to sign object URL")
    ELSE IF signer = "unreachable"
    THEN Throw("TypeError", "fetch failed")
    ELSE Ok(UndefinedUrl)

\* getObjectEntityUploadURL with the objectPath it returns left bare
getObjectEntityUploadURLBare(objectId, signer) ==
    LET privateObjectDir == getPrivateObjectDir
    IN  IF ~privateObjectDir.ok THEN privateObjectDir
        ELSE
        LET fullPath == privateObjectDir.val \o UploadsDir \o objectId
            parsed == parseObjectPath(fullPath)
        IN  IF ~parsed.ok THEN parsed
            ELSE
            LET signed == [bucketName |-> parsed.val.bucketName,
                           objectName |-> parsed.val.objectName,
                           method |-> "PUT", ttlSec |-> 900]
                uploadURL == signObjectURL(signed.bucketName, signed.objectName,
                                           signed.method, signed.ttlSec, signer)
            IN  IF ~uploadURL.ok THEN uploadURL
                ELSE Ok([uploadURL |-> uploadURL.val,
                         objectPath |-> Uploads \o Slash \o objectId,
                         signed |-> signed,
                         request |-> signRequest(signed.bucketName, signed.objectName,
                                                 signed.method, signed.ttlSec)])

\* objectId is the value of randomUUID(); the field signed of the result is
\* what was handed to signObjectURL, the field request what signObjectURL asked
\* of the signer
getObjectEntityUploadURL(objectId, signer) ==
    LET privateObjectDir == getPrivateObjectDir
    IN  IF ~privateObjectDir.ok THEN privateObjectDir
        ELSE
        LET fullPath == privateObjectDir.val \o UploadsDir \o objectId
            parsed == parseObjectPath(fullPath)
        IN  IF ~parsed.ok THEN parsed
            ELSE
            LET signed == [bucketName |-> parsed.val.bucketName,
                           objectName |-> parsed.val.objectName,
                           method |-> "PUT", ttlSec |-> 900]
                uploadURL == signObjectURL(signed.bucketName, signed.objectName,
                                           signed.method, signed.ttlSec, signer)
            IN  IF ~uploadURL.ok THEN uploadURL
                ELSE Ok([uploadURL |-> uploadURL.val,
                         objectPath |-> ObjectsUploadsPrefix \o objectId,
                         signed |-> signed,
                         request |-> signRequest(signed.bucketName, signed.objectName,
                                                 signed.method, signed.ttlSec)])

\* the backend object getObjectEntityFile looks up for objectPath
objectEntityAddress(objectPath) ==
    IF ~StartsWith(objectPath, ObjectsPrefix) THEN ObjectNotFoundError
    ELSE
    LET parts == Split(Slice(objectPath, 1), "/")
    IN  IF Len(parts) < 2 THEN ObjectNotFoundError
        ELSE
        LET entityId == Join(Slice(parts, 1), Slash)
            dir == getPrivateObjectDir
        IN  IF ~dir.ok THEN dir
            ELSE
            LET entityDir == IF EndsWith(dir.val, Slash) THEN dir.val
                             ELSE dir.val \o Slash
                parsed == parseObjectPath(entityDir \o entityId)
            IN  IF ~parsed.ok THEN parsed
                ELSE Ok(File(parsed.val.bucketName, parsed.val.objectName))

getObjectEntityFile(objectPath) ==
    LET objectFile == objectEntityAddress(objectPath)
    IN  IF ~objectFile.ok THEN objectFile
        ELSE IF ~Exists(objectFile.val) THEN ObjectNotFoundError
        ELSE objectFile

\* the outcome of a call that did not reach setObjectAclPolicy
NotAttached(out) == [out |-> out, objects |-> objects, attached |-> FALSE]

\* trySetObjectEntityAclPolicy without the existence test of the object: the
\* policy is written for the address, stored or not
trySetObjectEntityAclPolicyUnseen(rawPath, aclPolicy) ==
    LET normalizedPath == normalizeObjectEntityPath(rawPath)
    IN  IF ~normalizedPath.ok THEN NotAttached(normalizedPath)
        ELSE IF ~StartsWith(normalizedPath.val, Slash) THEN NotAttached(normalizedPath)
        ELSE LET objectFile == objectEntityAddress(normalizedPath.val)
             IN  IF ~objectFile.ok THEN NotAttached(objectFile)
                 ELSE [out |-> normalizedPath,
                       objects |-> IF Exists(objectFile.val)
                                   THEN setObjectAclPolicy(objectFile.val, aclPolicy)
                                   ELSE objects \cup
                                        {[bucketName |-> objectFile.val.bucketName,
                                          objectName |-> objectFile.val.objectName,
                                          aclPolicy |-> aclPolicy]},
                       attached |-> TRUE]

\* the value returned or the error thrown, the objects of the backend after
\* the call, and whether setObjectAclPolicy was called
trySetObjectEntityAclPolicy(rawPath, aclPolicy) ==
    LET normalizedPath == normalizeObjectEntityPath(rawPath)
    IN  IF ~normalizedPath.ok THEN NotAttached(normalizedPath)
        ELSE IF ~StartsWith(normalizedPath.val, Slash) THEN NotAttached(normalizedPath)
        ELSE LET objectFile == getObjectEntityFile(normalizedPath.val)
             IN  IF ~objectFile.ok THEN NotAttached(objectFile)
                 ELSE [out |-> normalizedPath,
                       objects |-> setObjectAclPolicy(objectFile.val, aclPolicy),
                       attached |-> TRUE]

\* canAccessObjectEntity asking for Write whatever was requested
canAccessObjectEntityWriteOnly(userId, objectFile, requestedPermission) ==
    canAccessObject(userId, objectFile, WRITE)

\* canAccessObjectEntity without the caller's id handed on
canAccessObjectEntityNoUser(userId, objectFile, requestedPermission) ==
    canAccessObject(Undefined, objectFile,
        IF requestedPermission = Undefined THEN READ ELSE requestedPermission)

canAccessObjectEntity(userId, objectFile, requestedPermission) ==
    canAccessObject(userId, objectFile,
        IF requestedPermission = Undefined THEN READ ELSE requestedPermission)

(***************************************************************************)
(* Calls of the service.                                                   *)
(***************************************************************************)
\* the backend object the signed URL of a grant was issued for
SignedFile(g) == File(g.signed.bucketName, g.signed.objectName)

\* what a caller may report back for a grant: the signed URL it uploaded to,
\* or the entity path
Reports(g) == { g.uploadURL, g.objectPath }

AssignInputs ==
    UNION { Reports(g) : g \in grants } \cup { Slash \o Other, Other }

EntityPaths ==
    { g.objectPath : g \in grants } \cup
    { ObjectsPrefix, ObjectsPrefix \o Other, Slash \o Other }

\* a grant as issued, with the instant of its issuance
GrantOf(objectId, val) ==
    [objectId |-> objectId, uploadURL |-> val.uploadURL, objectPath |-> val.objectPath,
     signed |-> val.signed, request |-> val.request, issuedAt |-> now]

\* a grant that came without a URL gives the caller nothing to upload to and
\* is not kept among the grants
IssueUploadGrant(objectId, signer) ==
    /\ \A g \in grants : g.objectId # objectId
    /\ \E r \in {getObjectEntityUploadURL(objectId, signer)} :
           /\ grants' = IF r.ok /\ r.val.uploadURL # UndefinedUrl
                        THEN grants \cup {GrantOf(objectId, r.val)} ELSE grants
           /\ last' = [op |-> "grant", in |-> objectId, out |-> r, signer |-> signer,
                       isExternalDeployment |-> isExternalDeployment]
    /\ UNCHANGED <<env, objects, req, arg, googleEnv, objectStorageClient, now,
                   users, loginSession>>

\* ClientUpload with a Public policy given to the object for its path
ClientUploadInferred(g) ==
    /\ ~Exists(SignedFile(g))
    /\ objects' = objects \cup {[bucketName |-> g.signed.bucketName,
                                 objectName |-> g.signed.objectName,
                                 aclPolicy |-> [owner |-> "u1", visibility |-> "public",
                                                aclRules |-> <<>>]]}
    /\ UNCHANGED <<env, grants, req, last, arg, googleEnv, objectStorageClient, now,
                   users, loginSession>>

\* the caller PUTs its bytes to the signed URL of a grant: the object the URL
\* was signed for comes to exist, with no policy
ClientUpload(g) ==
    /\ ~Exists(SignedFile(g))
    /\ objects' = objects \cup {[bucketName |-> g.signed.bucketName,
                                 objectName |-> g.signed.objectName,
                                 aclPolicy |-> Null]}
    /\ UNCHANGED <<env, grants, req, last, arg, googleEnv, objectStorageClient, now,
                   users, loginSession>>

AssignPolicy(rawPath, aclPolicy) ==
    /\ \E r \in {trySetObjectEntityAclPolicy(rawPath, aclPolicy)} :
           /\ objects' = r.objects
           /\ last' = [op |-> "assign", in |-> rawPath, out |-> r.out,
                       attached |-> r.attached,
                       uploaded |-> \E g \in grants : /\ rawPath \in Reports(g)
                                                      /\ Exists(SignedFile(g))]
    /\ UNCHANGED <<env, grants, req, arg, googleEnv, objectStorageClient, now,
                   users, loginSession>>

ResolveEntity(objectPath) ==
    /\ last' = [op |-> "resolve", in |-> objectPath,
                address |-> objectEntityAddress(objectPath),
                out |-> getObjectEntityFile(objectPath)]
    /\ UNCHANGED <<env, objects, grants, req, arg, googleEnv, objectStorageClient, now,
                   users, loginSession>>

\* cacheTtlSec when the caller of downloadObject gives none
NoTtl == <<>>

\* CacheControl with the default of the upload grants for max-age
CacheControlShort(aclPolicy, cacheTtlSec) ==
    LET isPublic == aclPolicy # Null /\ aclPolicy.visibility = "public"
        ttl == IF cacheTtlSec = NoTtl THEN 900 ELSE cacheTtlSec[1]
    IN  <<IF isPublic THEN "public" ELSE "private", ", max-age=", ToString(ttl)>>

\* the Cache-Control header of downloadObject, in its three parts; cacheTtlSec
\* is NoTtl or the one-element sequence of the value given
CacheControl(aclPolicy, cacheTtlSec) ==
    LET isPublic == aclPolicy # Null /\ aclPolicy.visibility = "public"
        ttl == IF cacheTtlSec = NoTtl THEN 3600 ELSE cacheTtlSec[1]
    IN  <<IF isPublic THEN "public" ELSE "private", ", max-age=", ToString(ttl)>>

\* downloadObject called on a file of the backend, up to res.set
Download(objectFile, cacheTtlSec, metadataOk) ==
    /\ last' = [op |-> "download", objectFile |-> objectFile, cacheTtlSec |-> cacheTtlSec,
                aclPolicy |-> getObjectAclPolicy(objectFile),
                status |-> IF metadataOk THEN 200 ELSE 500,
                cacheControl |-> IF metadataOk
                                 THEN CacheControl(getObjectAclPolicy(objectFile), cacheTtlSec)
                                 ELSE <<>>]
    /\ UNCHANGED <<env, objects, grants, req, arg, googleEnv, objectStorageClient, now,
                   users, loginSession>>

CanAccess(userId, objectFile, requestedPermission) ==
    /\ last' = [op |-> "canAccess", userId |-> userId, objectFile |-> objectFile,
                requestedPermission |-> requestedPermission,
                aclPolicy |-> getObjectAclPolicy(objectFile),
                out |-> canAccessObjectEntity(userId, objectFile, requestedPermission)]
    /\ UNCHANGED <<env, objects, grants, req, arg, googleEnv, objectStorageClient, now,
                   users, loginSession>>

Next ==
    \/ \E objectId \in Ids, signer \in SignerOutcomes : IssueUploadGrant(objectId, signer)
    \/ \E g \in grants : ClientUpload(g)
    \/ \E rawPath \in AssignInputs, aclPolicy \in Policies : AssignPolicy(rawPath, aclPolicy)
    \/ \E objectPath \in EntityPaths : ResolveEntity(objectPath)
    \/ \E userId \in Users \cup {Undefined}, o \in objects,
          requestedPermission \in {READ, WRITE, Undefined} :
            CanAccess(userId, FileOf(o), requestedPermission)
    \/ \E o \in objects, cacheTtlSec \in {NoTtl, <<60>>}, metadataOk \in BOOLEAN :
            Download(FileOf(o), cacheTtlSec, metadataOk)

Spec == Init /\ [][Next]_vars

(***************************************************************************)
(* Signing over time: the clock advances and process.env may be changed    *)
(* between the calls.                                                      *)
(***************************************************************************)
\* process.env[name] is set when it was not, deleted when it was
SetEnv(name) ==
    /\ googleEnv' = IF name \in googleEnv THEN googleEnv \ {name}
                    ELSE googleEnv \cup {name}
    /\ UNCHANGED <<env, objects, grants, req, last, arg, objectStorageClient, now,
                   users, loginSession>>

\* Date.now() advances
Tick ==
    /\ now < MaxTicks * 999
    /\ now' = now + 999
    /\ UNCHANGED <<env, objects, grants, req, last, arg, googleEnv, objectStorageClient,
                   users, loginSession>>

SignConfigs == { Env(Slash \o MyBucket \o Slash \o DotPrivate, Empty) }

InitSign ==
    /\ env \in SignConfigs
    /\ objects = {}
    /\ grants = {}
    /\ req = NoRequest
    /\ last = NoCall
    /\ arg = Empty
    /\ googleEnv \in SUBSET GoogleTriple
    /\ objectStorageClient = StorageClientFor(googleEnv)
    /\ now = 0
    /\ users = DbUsers
    /\ loginSession = AnonymousSession

NextSign ==
    \/ \E objectId \in Ids, signer \in SignerOutcomes : IssueUploadGrant(objectId, signer)
    \/ \E name \in GoogleTriple : SetEnv(name)
    \/ Tick

SpecSign == InitSign /\ [][NextSign]_vars

(***************************************************************************)
(* Authentication middleware of the routes.                                *)
(***************************************************************************)
Accept(user) == [next |-> TRUE, user |-> user]

Reject(status) == [next |-> FALSE, status |-> status]

\* dbOk: whether storage.getUser answers or throws
isPasswordAuthenticated(session, dbOk) ==
    IF session.userId = Undefined \/ ~session.isAdmin THEN Reject(401)
    ELSE IF session.isFallbackAdmin /\ session.userId = FALLBACK_ADMIN.id
    THEN Accept([id |-> FALLBACK_ADMIN.id, sub |-> Undefined])
    ELSE IF dbOk
    THEN LET user == getUser(session.userId)
         IN  IF user = Null THEN Reject(401)
             ELSE IF ~user.isAdmin THEN Reject(401)
             ELSE Accept([id |-> user.id, sub |-> Undefined])
    ELSE Reject(401)

\* replitAuth.ts is not among the sources: the OIDC check lets a request
\* through when it carries an OIDC login and answers 401 otherwise
isAuthenticated(session) ==
    IF session.sub = Undefined THEN Reject(401)
    ELSE Accept([id |-> Undefined, sub |-> session.sub])

\* unifiedAuth that lets a request without a password session pass unchecked
unifiedAuthPasswordOnly(session, dbOk) ==
    LET hasPasswordSession == session.userId # Undefined /\ session.isAdmin
    IN  IF hasPasswordSession THEN isPasswordAuthenticated(session, dbOk)
        ELSE Accept([id |-> Undefined, sub |-> session.sub])

unifiedAuth(session, dbOk) ==
    LET hasPasswordSession == session.userId # Undefined /\ session.isAdmin
    IN  IF hasPasswordSession THEN isPasswordAuthenticated(session, dbOk)
        ELSE isAuthenticated(session)

\* req.user?.claims?.sub || req.user?.id
RouteUserId(user) == IF user.sub # Undefined THEN user.sub ELSE user.id

(***************************************************************************)
(* The GET route of /objects/: one request at a time, one step per await. *)
(***************************************************************************)
\* res.sendStatus, res.status(...).json: the status is sent and the response
\* ended
Respond(status) == [req EXCEPT !.pc = "done", !.status = status, !.res = "ended"]

\* the request arrives and passes through unifiedAuth
GetRequest(session, dbOk, path) ==
    /\ req.pc \in {"idle", "done"}
    /\ \E auth \in {unifiedAuth(session, dbOk)} :
           req' = IF auth.next
                  THEN [NoRequest EXCEPT !.pc = "resolve", !.session = session,
                                         !.path = path, !.userId = RouteUserId(auth.user),
                                         !.res = "open"]
                  ELSE [NoRequest EXCEPT !.pc = "done", !.session = session,
                                         !.path = path, !.status = auth.status,
                                         !.res = "ended"]
    /\ UNCHANGED <<env, objects, grants, last, arg, googleEnv, objectStorageClient, now,
                   users, loginSession>>

GetResolve ==
    /\ req.pc = "resolve"
    /\ \E r \in {getObjectEntityFile(req.path)} :
           req' = IF r.ok THEN [req EXCEPT !.pc = "decide", !.objectFile = r.val]
                  ELSE IF r.name = "ObjectNotFoundError" THEN Respond(404)
                  ELSE Respond(500)
    /\ UNCHANGED <<env, objects, grants, last, arg, googleEnv, objectStorageClient, now,
                   users, loginSession>>

\* GetDecide with the 401 sent and no return after it
GetDecideNoReturn ==
    /\ req.pc = "decide"
    /\ \E canAccess \in {canAccessObjectEntity(req.userId, req.objectFile, READ)} :
           req' = [req EXCEPT !.pc = "download",
                              !.status = IF canAccess THEN 0 ELSE 401,
                              !.canAccess = IF canAccess THEN "allow" ELSE "deny",
                              !.decidedOn = getObjectAclPolicy(req.objectFile)]
    /\ UNCHANGED <<env, objects, grants, last, arg, googleEnv, objectStorageClient, now,
                   users, loginSession>>

\* GetDecide without the test of the decision
GetDecideUnchecked ==
    /\ req.pc = "decide"
    /\ \E canAccess \in {canAccessObjectEntity(req.userId, req.objectFile, READ)} :
           req' = [req EXCEPT !.pc = "download",
                              !.canAccess = IF canAccess THEN "allow" ELSE "deny",
                              !.decidedOn = getObjectAclPolicy(req.objectFile)]
    /\ UNCHANGED <<env, objects, grants, last, arg, googleEnv, objectStorageClient, now,
                   users, loginSession>>

GetDecide ==
    /\ req.pc = "decide"
    /\ \E canAccess \in {canAccessObjectEntity(req.userId, req.objectFile, READ)} :
           req' = IF ~canAccess
                  THEN [Respond(401) EXCEPT !.canAccess = "deny",
                                            !.decidedOn = getObjectAclPolicy(req.objectFile)]
                  ELSE [req EXCEPT !.pc = "download", !.canAccess = "allow",
                                   !.decidedOn = getObjectAclPolicy(req.objectFile)]
    /\ UNCHANGED <<env, objects, grants, last, arg, googleEnv, objectStorageClient, now,
                   users, loginSession>>

\* downloadObject up to res.set: metadataOk is whether file.getMetadata and
\* the policy read answer or throw
GetDownload(metadataOk) ==
    /\ req.pc = "download"
    /\ req' = IF ~metadataOk THEN Respond(500)
              ELSE LET aclPolicy == getObjectAclPolicy(req.objectFile)
                       header == CacheControl(aclPolicy, NoTtl)
                   IN  [req EXCEPT !.pc = "stream", !.stream = "piped",
                                   !.cacheControl = header[1], !.maxAge = header[3]]
    /\ UNCHANGED <<env, objects, grants, last, arg, googleEnv, objectStorageClient, now,
                   users, loginSession>>

\* stream.pipe(res): the next chunk of the object, or the end of the stream
GetStream ==
    /\ req.pc = "stream"
    /\ req' = IF req.bytes < MaxChunks
              THEN [req EXCEPT !.bytes = @ + 1, !.headersSent = TRUE, !.status = 200]
              ELSE [req EXCEPT !.pc = "done", !.headersSent = TRUE, !.status = 200,
                               !.stream = "ended", !.res = "ended"]
    /\ UNCHANGED <<env, objects, grants, last, arg, googleEnv, objectStorageClient, now,
                   users, loginSession>>

\* stream.on("error"): a 500 while the headers are unsent, nothing afterwards
GetStreamError ==
    /\ req.pc = "stream"
    /\ req' = IF ~req.headersSent THEN [Respond(500) EXCEPT !.stream = "errored"]
              ELSE [req EXCEPT !.pc = "failed", !.stream = "errored"]
    /\ UNCHANGED <<env, objects, grants, last, arg, googleEnv, objectStorageClient, now,
                   users, loginSession>>

GetPaths == { g.objectPath : g \in grants } \cup { ObjectsPrefix \o Other }

(***************************************************************************)
(* POST /api/objects/upload and PUT /api/tour-images.                      *)
(***************************************************************************)
\* auth is what unifiedAuth answers for the request, signer what the signer
\* does; uploadURL.substring throws on a grant without a URL
PostUpload(auth, objectId, signer) ==
    /\ \A g \in grants : g.objectId # objectId
    /\     IF ~auth.next
           THEN /\ last' = [op |-> "POST /api/objects/upload", authenticated |-> FALSE,
                            status |-> auth.status]
                /\ grants' = grants
           ELSE \E r \in {getObjectEntityUploadURL(objectId, signer)} :
                    IF r.ok /\ r.val.uploadURL # UndefinedUrl
                    THEN /\ grants' = grants \cup {GrantOf(objectId, r.val)}
                         /\ last' = [op |-> "POST /api/objects/upload",
                                     authenticated |-> TRUE, status |-> 200,
                                     uploadURL |-> r.val.uploadURL,
                                     objectPath |-> r.val.objectPath]
                    ELSE /\ grants' = grants
                         /\ last' = [op |-> "POST /api/objects/upload",
                                     authenticated |-> TRUE, status |-> 500]
    /\ UNCHANGED <<env, objects, req, arg, googleEnv, objectStorageClient, now,
                   users, loginSession>>

\* auth is what unifiedAuth answers for the request, imageURL is
\* req.body.imageURL, Empty when the body has none
PutTourImages(auth, imageURL) ==
    /\     IF ~auth.next
           THEN /\ last' = [op |-> "PUT /api/tour-images", in |-> imageURL,
                            authenticated |-> FALSE, status |-> auth.status]
                /\ objects' = objects
           ELSE IF imageURL = Empty
           THEN /\ last' = [op |-> "PUT /api/tour-images", in |-> imageURL,
                            authenticated |-> TRUE, status |-> 400]
                /\ objects' = objects
           ELSE \E r \in {trySetObjectEntityAclPolicy(imageURL,
                              [owner |-> RouteUserId(auth.user), visibility |-> "public",
                               aclRules |-> <<>>])} :
                    /\ objects' = r.objects
                    /\ last' = IF r.out.ok
                               THEN [op |-> "PUT /api/tour-images", in |-> imageURL,
                                     authenticated |-> TRUE, status |-> 200,
                                     objectPath |-> r.out.val]
                               ELSE [op |-> "PUT /api/tour-images", in |-> imageURL,
                                     authenticated |-> TRUE, status |-> 500,
                                     details |-> r.out.message]
    /\ UNCHANGED <<env, grants, req, arg, googleEnv, objectStorageClient, now,
                   users, loginSession>>

\* what the middleware answers over all sessions and both outcomes of the
\* users-table lookup
AuthOutcomes == { unifiedAuth(session, dbOk) : session \in Sessions, dbOk \in BOOLEAN }

\* the routes attach public policies only: a private one comes from a direct
\* call of the service
OwnerOnlyPolicies ==
    { p \in Policies : p.visibility = "private" /\ p.owner = "u1" /\ p.aclRules = <<>> }

ImageUrls == UNION { Reports(g) : g \in grants } \cup { Other, Empty }

NextHttp ==
    \/ \E auth \in AuthOutcomes, objectId \in Ids, signer \in SignerOutcomes :
          PostUpload(auth, objectId, signer)
    \/ \E g \in grants : ClientUpload(g)
    \/ \E auth \in AuthOutcomes, imageURL \in ImageUrls : PutTourImages(auth, imageURL)
    \/ \E g \in grants, aclPolicy \in OwnerOnlyPolicies : AssignPolicy(g.objectPath, aclPolicy)
    \/ \E session \in Sessions, dbOk \in BOOLEAN, path \in GetPaths :
          GetRequest(session, dbOk, path)
    \/ GetResolve
    \/ GetDecide
    \/ \E metadataOk \in BOOLEAN : GetDownload(metadataOk)
    \/ GetStream
    \/ GetStreamError

\* the routes are checked under the layout of an external deployment and
\* with the private directory unset
HttpConfigs == { Env(DotPrivate, MyBucket), Env(Empty, Empty) }

InitHttp == Init /\ env \in HttpConfigs

SpecHttp == InitHttp /\ [][NextHttp]_vars

(***************************************************************************)
(* The download with a caller that may go away.  The steps of a request    *)
(* are callbacks of the event loop: a step that stays enabled is taken.    *)
(***************************************************************************)
\* the caller closes the connection while the object is piped to it: pipe
\* takes the read stream off the response; the code has no handler of its own
\* for the close of the response
ClientDisconnect ==
    /\ req.pc = "stream"
    /\ req' = [req EXCEPT !.pc = "dropped", !.res = "closed", !.stream = "unpiped"]
    /\ UNCHANGED <<env, objects, grants, last, arg, googleEnv, objectStorageClient, now,
                   users, loginSession>>

NextStream ==
    \/ NextHttp
    \/ ClientDisconnect

\* GetResolve is enabled exactly when the request is at "resolve", and leaves
\* it: its weak fairness is stated on the position of the request
SpecStream ==
    /\ InitHttp
    /\ [][NextStream]_vars
    /\ []<>(req.pc # "resolve")
    /\ WF_vars(GetDecide)
    /\ WF_vars(\E metadataOk \in BOOLEAN : GetDownload(metadataOk))
    /\ WF_vars(GetStream \/ GetStreamError \/ ClientDisconnect)

(***************************************************************************)
(* Password login and the rows of the users table.                         *)
(***************************************************************************)
\* storage.getUserByEmail is called by the login and is not among the
\* sources: the row whose email is the one given, or none
getUserByEmail(email) ==
    IF \E u \in users : u.email = email THEN CHOOSE u \in users : u.email = email
    ELSE Null

\* the session once the fallback admin is logged in
FallbackSession(s) ==
    [s EXCEPT !.userId = FALLBACK_ADMIN.id, !.isAdmin = TRUE, !.isFallbackAdmin = TRUE]

\* handlePasswordLogin with the fallback credentials tried before the table
handlePasswordLoginFallbackFirst(email, password, dbOk, s) ==
    IF email = "" \/ password = ""
    THEN [status |-> 400, session |-> s, user |-> Null, identity |-> "none"]
    ELSE IF email = FALLBACK_ADMIN.email /\ password = FALLBACK_ADMIN.password
    THEN [status |-> 200, session |-> FallbackSession(s), user |-> Null,
          identity |-> "fallback"]
    ELSE IF ~dbOk
    THEN [status |-> 500, session |-> s, user |-> Null, identity |-> "none"]
    ELSE LET user == getUserByEmail(email)
         IN  IF /\ user # Null
                /\ user.passwordHash # NoHash
                /\ user.isAdmin
                /\ verifyPassword(password, user.passwordHash)
             THEN [status |-> 200, user |-> user, identity |-> "database",
                   session |-> [s EXCEPT !.userId = user.id, !.isAdmin = TRUE]]
             ELSE [status |-> 401, session |-> s, user |-> user, identity |-> "none"]

\* what the login answers and leaves in the session s; dbOk: whether the
\* lookup by email answers or throws
handlePasswordLogin(email, password, dbOk, s) ==
    IF email = "" \/ password = ""
    THEN [status |-> 400, session |-> s, user |-> Null, identity |-> "none"]
    ELSE IF dbOk
    THEN LET user == getUserByEmail(email)
         IN  IF user # Null
             THEN IF /\ user.passwordHash # NoHash
                     /\ user.isAdmin
                     /\ verifyPassword(password, user.passwordHash)
                  THEN [status |-> 200, user |-> user, identity |-> "database",
                        session |-> [s EXCEPT !.userId = user.id, !.isAdmin = TRUE]]
                  ELSE [status |-> 401, session |-> s, user |-> user,
                        identity |-> "none"]
             ELSE IF email = FALLBACK_ADMIN.email /\ password = FALLBACK_ADMIN.password
             THEN [status |-> 200, session |-> FallbackSession(s), user |-> Null,
                   identity |-> "fallback"]
             ELSE [status |-> 401, session |-> s, user |-> Null, identity |-> "none"]
    ELSE IF email = FALLBACK_ADMIN.email /\ password = FALLBACK_ADMIN.password
    THEN [status |-> 200, session |-> FallbackSession(s), user |-> Null,
          identity |-> "fallback"]
    ELSE [status |-> 500, session |-> s, user |-> Null, identity |-> "none"]

\* upsertUser that writes passwordHash and isAdmin into the row it finds
upsertUserOverwrite(userData) ==
    LET byId == { u \in users : u.id = userData.id }
        byEmail == { u \in users : u.email = userData.email }
    IN  IF byId # {}
        THEN IF \E u \in byEmail : u.id # userData.id
             THEN [out |-> Throw("Error", "duplicate key value"), users |-> users,
                   matched |-> "id"]
             ELSE [out |-> Ok(userData.id), matched |-> "id",
                   users |-> { IF u \in byId THEN userData ELSE u : u \in users }]
        ELSE IF byEmail # {}
        THEN [out |-> Ok(userData.id), matched |-> "email",
              users |-> { IF u \in byEmail THEN userData ELSE u : u \in users }]
        ELSE [out |-> Ok(userData.id), matched |-> "none",
              users |-> users \cup {userData}]

\* the table after upsertUser: the row with the id is updated, else the row
\* with the email, else the row is inserted; email is a unique column
upsertUser(userData) ==
    LET byId == { u \in users : u.id = userData.id }
        byEmail == { u \in users : u.email = userData.email }
    IN  IF byId # {}
        THEN IF \E u \in byEmail : u.id # userData.id
             THEN [out |-> Throw("Error", "duplicate key value"), users |-> users,
                   matched |-> "id"]
             ELSE [out |-> Ok(userData.id), matched |-> "id",
                   users |-> { IF u \in byId
                               THEN [u EXCEPT !.email = userData.email,
                                              !.firstName = userData.firstName]
                               ELSE u : u \in users }]
        ELSE IF byEmail # {}
        THEN [out |-> Ok(userData.id), matched |-> "email",
              users |-> { IF u \in byEmail
                          THEN [u EXCEPT !.id = userData.id,
                                         !.firstName = userData.firstName]
                          ELSE u : u \in users }]
        ELSE [out |-> Ok(userData.id), matched |-> "none",
              users |-> users \cup {userData}]

\* the row createAdminUser hands to upsertUser; id is what randomUUID() gave
createAdminUser(email, password, id) ==
    upsertUser(User(id, email, hashPassword(password), TRUE, "Admin"))

LoginEmails == {FALLBACK_ADMIN.email, "admin@example.com", ""}

Passwords == {FALLBACK_ADMIN.password, "secret", ""}

UserIds == { ToString(i) : i \in 1..MaxUserIds }

\* the rows upsertUser is given by callers other than createAdminUser
UpsertInputs ==
    { User(id, email, hp[1], hp[2], "Oidc") :
        id \in {"u1", "u2"},
        email \in {FALLBACK_ADMIN.email, "admin@example.com"},
        hp \in {<<NoHash, FALSE>>, <<hashPassword(FALLBACK_ADMIN.password), TRUE>>} }

\* POST /api/auth/password/login
Login(email, password, dbOk) ==
    /\ \E r \in {handlePasswordLogin(email, password, dbOk, loginSession)} :
           /\ loginSession' = r.session
           /\ last' = [op |-> "login", email |-> email, password |-> password,
                       dbOk |-> dbOk, user |-> r.user, status |-> r.status,
                       identity |-> r.identity]
    /\ UNCHANGED <<env, objects, grants, req, arg, googleEnv, objectStorageClient, now,
                   users>>

\* handlePasswordLogout: req.session.destroy
Logout ==
    /\ loginSession # AnonymousSession
    /\ loginSession' = AnonymousSession
    /\ last' = [op |-> "logout"]
    /\ UNCHANGED <<env, objects, grants, req, arg, googleEnv, objectStorageClient, now,
                   users>>

CreateAdminUser(email, password, id) ==
    /\ \A u \in users : u.id # id
    /\ \E r \in {createAdminUser(email, password, id)} :
           /\ users' = r.users
           /\ last' = [op |-> "createAdminUser", email |-> email, password |-> password,
                       id |-> id, matched |-> r.matched, out |-> r.out]
    /\ UNCHANGED <<env, objects, grants, req, arg, googleEnv, objectStorageClient, now,
                   loginSession>>

UpsertUser(userData) ==
    /\ \E r \in {upsertUser(userData)} :
           /\ users' = r.users
           /\ last' = [op |-> "upsertUser", in |-> userData, matched |-> r.matched,
                       out |-> r.out]
    /\ UNCHANGED <<env, objects, grants, req, arg, googleEnv, objectStorageClient, now,
                   loginSession>>

InitAuth ==
    /\ env \in SignConfigs
    /\ objects = {}
    /\ grants = {}
    /\ req = NoRequest
    /\ last = NoCall
    /\ arg = Empty
    /\ googleEnv = DeploymentEnv
    /\ objectStorageClient = StorageClientFor(googleEnv)
    /\ now = 0
    /\ users \in {{}, DbUsers}
    /\ loginSession = AnonymousSession

NextAuth ==
    \/ \E email \in LoginEmails, password \in Passwords, dbOk \in BOOLEAN :
          Login(email, password, dbOk)
    \/ Logout
    \/ \E email \in LoginEmails \ {""}, password \in Passwords \ {""}, id \in UserIds :
          CreateAdminUser(email, password, id)
    \/ \E userData \in UpsertInputs : UpsertUser(userData)

SpecAuth == InitAuth /\ [][NextAuth]_vars

(***************************************************************************)
(* Properties.                                                             *)
(***************************************************************************)
CallerIds == Users \cup {Undefined, FALLBACK_ADMIN.id}

HasPolicy(aclPolicy, visibility) ==
    aclPolicy # Null /\ aclPolicy.visibility = visibility

\* C1: an object that is stored with no policy attached is denied to every
\* caller, present or none, for Read and for Write; and a GET whose access
\* decision found no policy ends with 401 and with nothing sent.
C1_AbsentPolicyDenied ==
    /\ \A o \in objects :
          o.aclPolicy = Null =>
              \A userId \in CallerIds, requestedPermission \in {READ, WRITE, Undefined} :
                  ~canAccessObjectEntity(userId, FileOf(o), requestedPermission)
    /\ (req.canAccess # "unset" /\ req.decidedOn = Null) =>
          /\ req.canAccess = "deny"
          /\ req.pc = "done" /\ req.status = 401
          /\ req.bytes = 0 /\ ~req.headersSent /\ req.cacheControl = "unset"

\* witness of C1: a GET of a stored object with no policy has been decided
C1_Witness ==
    /\ req.pc = "done" /\ req.canAccess = "deny" /\ req.decidedOn = Null
    /\ Exists(req.objectFile)

\* C2: on the download path a denied request is answered 401 at the decision:
\* no header of the download is set and no byte of the object is sent for it.
C2_DeniedBeforeAnythingIsSent ==
    req.canAccess = "deny" =>
        /\ req.pc = "done" /\ req.status = 401
        /\ req.cacheControl = "unset" /\ ~req.headersSent /\ req.bytes = 0

\* witness of C2: a GET of an object with a Private policy by a caller the
\* policy does not admit has been denied
C2_Witness ==
    /\ req.canAccess = "deny" /\ HasPolicy(req.decidedOn, "private")
    /\ req.pc = "done" /\ req.status = 401

\* C3: for a policy whose visibility is Public, canAccess with permission Read
\* is true for every caller id and for no caller id.
C3_PublicReadAllowed ==
    (/\ last.op = "canAccess"
     /\ HasPolicy(last.aclPolicy, "public")
     /\ last.requestedPermission = READ) => last.out

\* witness of C3: a Read of a Public object by no caller was allowed
C3_Witness ==
    /\ last.op = "canAccess" /\ HasPolicy(last.aclPolicy, "public")
    /\ last.requestedPermission = READ /\ last.userId = Undefined /\ last.out

\* C4: a GET by a request that carries no authenticated identity, for an
\* existing object whose policy is Public, is not answered 401.
C4_PublicReadableWithoutIdentity ==
    [][ (/\ req' # req
         /\ req'.pc # "idle"
         /\ req'.session = AnonymousSession
         /\ \E o \in objects :
               /\ HasPolicy(o.aclPolicy, "public")
               /\ getObjectEntityFile(req'.path) = Ok(FileOf(o)))
        => req'.status # 401 ]_vars

\* C5: for any attached policy, canAccess with a caller id equal to the
\* policy's owner is true for Read and for Write.
C5_OwnerAllowed ==
    (/\ last.op = "canAccess"
     /\ last.aclPolicy # Null
     /\ last.userId = last.aclPolicy.owner
     /\ last.requestedPermission \in {READ, WRITE}) => last.out

\* witness of C5: a Write of a Private object by its owner was allowed
C5_Witness ==
    /\ last.op = "canAccess" /\ HasPolicy(last.aclPolicy, "private")
    /\ last.userId = last.aclPolicy.owner /\ last.requestedPermission = WRITE
    /\ last.out

\* the caller belongs to the group of no rule of the policy
MatchesNoGroupRule(userId, aclPolicy) ==
    \A i \in 1..Len(aclPolicy.aclRules) :
        userId \notin GroupMembers(aclPolicy.aclRules[i].group)

\* C6: for a Private policy, a caller that is absent, or that differs from the
\* owner and matches no group rule, is denied for Read and for Write.
C6_PrivateUnrelatedDenied ==
    (/\ last.op = "canAccess"
     /\ HasPolicy(last.aclPolicy, "private")
     /\ \/ last.userId = Undefined
        \/ /\ last.userId # last.aclPolicy.owner
           /\ MatchesNoGroupRule(last.userId, last.aclPolicy)
     /\ last.requestedPermission \in {READ, WRITE}) => ~last.out

\* witness of C6: a Read of a Private object by a caller that is neither its
\* owner nor in a group of its rules was denied
C6_Witness ==
    /\ last.op = "canAccess" /\ HasPolicy(last.aclPolicy, "private")
    /\ last.userId \in Users /\ last.userId # last.aclPolicy.owner
    /\ last.aclPolicy.aclRules # <<>>
    /\ MatchesNoGroupRule(last.userId, last.aclPolicy)
    /\ last.requestedPermission = READ /\ ~last.out

\* C7: resolveEntity applied to the canonical path of a grant addresses the
\* (bucket, object) that was handed to the signer for the grant's PUT URL.
C7_GrantResolveRoundTrip ==
    \A g \in grants :
        (last.op = "resolve" /\ last.in = g.objectPath) =>
            last.address = Ok(SignedFile(g))

\* C8: when the caller reports the signed URL of a grant after it has uploaded
\* the object, assignPolicy returns the canonical path of the grant and the
\* uploaded object carries the policy.
C8_UploadReportRoundTrip ==
    \A g \in grants :
        (last.op = "assign" /\ last.in = g.uploadURL /\ last.uploaded) =>
            /\ last.out = Ok(g.objectPath)
            /\ getObjectAclPolicy(SignedFile(g)) # Null

\* C9: normalize is idempotent: applying normalize to the value normalize
\* returned for any input x returns that value again.
C9_NormalizeIdempotent ==
    last.op = "renormalize" => last.out = Ok(last.first)

\* C11: assignPolicy on an input whose normalized form does not start with
\* /objects/ returns the raw input unchanged, attaches no policy and raises
\* no error.
C11_NonEntityReturnedUnchanged ==
    (/\ last.op = "assign"
     /\ normalizeObjectEntityPath(last.in).ok
     /\ ~StartsWith(normalizeObjectEntityPath(last.in).val, ObjectsPrefix)) =>
        /\ last.out = Ok(last.in)
        /\ ~last.attached

\* C12: the objectPath of every upload grant begins with /objects/, and so
\* does the path assignPolicy returns whenever it has attached a policy.
C12_CanonicalPathsBeginWithObjects ==
    /\ \A g \in grants : StartsWith(g.objectPath, ObjectsPrefix)
    /\ (last.op = "grant" /\ last.out.ok) =>
           StartsWith(last.out.val.objectPath, ObjectsPrefix)
    /\ (last.op = "assign" /\ last.attached) =>
           /\ last.out.ok
           /\ StartsWith(last.out.val, ObjectsPrefix)

\* witness of C12: a policy was attached on the report of a signed URL
C12_Witness ==
    /\ last.op = "assign" /\ last.attached
    /\ IsStorageUrl(last.in)
    /\ \E g \in grants : last.out = Ok(g.objectPath)

\* the path with one leading slash trimmed
TrimLeadingSlash(path) == IF StartsWith(path, Slash) THEN Slice(path, 1) ELSE path

\* the trimmed path has no bucket, or has a bucket and no object after it
FewerThanTwoSegments(path) ==
    LET parts == Split(TrimLeadingSlash(path), "/")
    IN  \/ Len(parts) < 2
        \/ parts[1] = Empty
        \/ Join(Slice(parts, 1), Slash) = Empty

\* C13: parse fails for every path that, one leading slash trimmed, has fewer
\* than two segments (no bucket, a bucket with no object, a bucket followed by
\* a trailing slash only), and never returns an empty bucket or object key.
C13_ParseRejectsShortPaths ==
    last.op = "parse" =>
        /\ FewerThanTwoSegments(last.in) => ~last.out.ok
        /\ last.out.ok => /\ last.out.val.bucketName # Empty
                          /\ last.out.val.objectName # Empty

\* C14: whenever parse succeeds, the object key it returns does not begin with
\* a slash.
C14_ObjectKeyHasNoLeadingSlash ==
    (last.op = "parse" /\ last.out.ok) => ~StartsWith(last.out.val.objectName, Slash)

\* the instant, in milliseconds, at which a signing request lets the URL expire
ExpiryOf(request) ==
    IF request.variant = ServiceAccount THEN request.expires
    ELSE request.expires_at.dateTime * 1000 + request.expires_at.sss

\* the method and the one object a signing request names
TargetOf(request) ==
    IF request.variant = ServiceAccount
    THEN [bucketName |-> request.bucketName, objectName |-> request.objectName,
          method |-> IF request.action = "write" THEN "PUT" ELSE "other"]
    ELSE [bucketName |-> request.bucket_name, objectName |-> request.object_name,
          method |-> request.method]

\* C15: every upload grant was signed for method PUT on the one object of the
\* grant, with an expiry equal to the instant of issuance plus 900 seconds,
\* under the service account and under the sidecar alike.
C15_UploadGrantExpiresAfter900s ==
    \A g \in grants :
        /\ TargetOf(g.request) = [bucketName |-> g.signed.bucketName,
                                  objectName |-> g.signed.objectName, method |-> "PUT"]
        /\ ExpiryOf(g.request) = g.issuedAt + 900 * 1000

\* witness of C15: a grant issued through the sidecar after the clock has
\* advanced to an instant that is no whole second
C15_Witness ==
    \E g \in grants :
        /\ g.request.variant = SidecarToken
        /\ g.issuedAt % 1000 # 0
        /\ ExpiryOf(g.request) = g.issuedAt + 900000

\* C16: the variant every signObjectURL call uses is the variant the storage
\* client was built with at startup, whatever happens to process.env
\* afterwards.
C16_OneVariantPerProcess ==
    \A g \in grants : g.request.variant = objectStorageClient

\* C17: resolveEntity returns an object only when that object exists, and
\* fails with ObjectNotFoundError and no other kind of error otherwise: for a
\* path outside /objects/, for /objects/ with an empty entity id, and for a
\* well-formed path whose object does not exist.
C17_ResolveFailsWithNotFoundOnly ==
    last.op = "resolve" =>
        IF last.out.ok THEN Exists(last.out.val)
        ELSE last.out.name = "ObjectNotFoundError"

\* C18: a GET is answered 404 exactly when its object is not found, 401
\* exactly when the object exists and the decision is deny, 500 only when the
\* backend fails during the download, and the status of a request, once
\* sent, is not replaced by another.
C18_StatusMatchesOutcome ==
    [][ /\ (req' # req /\ req'.pc = "done") =>
             LET objectFile == getObjectEntityFile(req'.path)
             IN  /\ req'.status = 404 <=> objectFile = ObjectNotFoundError
                 /\ req'.status = 401 <=>
                        /\ objectFile.ok
                        /\ ~canAccessObjectEntity(req'.userId, objectFile.val, READ)
                 /\ req'.status = 500 => req.pc \in {"download", "stream"}
        /\ (req.status # 0 /\ req.pc # "done") => req'.status = req.status ]_vars

\* C19: a policy is attached only to an object that already exists in the
\* backend, and assignPolicy on the entity path of a grant whose object has
\* not been uploaded attaches nothing and fails with ObjectNotFoundError.
C19_PolicyOnlyAfterStorage ==
    [][ /\ \A p \in objects' :
              p.aclPolicy # Null => \E o \in objects : FileOf(o) = FileOf(p)
        /\ \A g \in grants' :
              (last'.op = "assign" /\ last'.in = g.objectPath /\ ~last'.uploaded) =>
                  /\ last'.out = ObjectNotFoundError
                  /\ ~last'.attached ]_vars

\* witness of C19: assignPolicy was called on the entity path of a grant
\* before its upload and failed
C19_Witness ==
    \E g \in grants :
        /\ last.op = "assign" /\ last.in = g.objectPath /\ ~last.uploaded
        /\ ~Exists(SignedFile(g))
        /\ last.out = ObjectNotFoundError /\ ~last.attached

\* every object of the backend is still there with the policy it had
PoliciesUnchanged == \A o \in objects : o \in objects'

C21_CacheControlHeader ==
    (last.op = "download" /\ last.status = 200) =>
        last.cacheControl =
            << IF HasPolicy(last.aclPolicy, "public") THEN "public" ELSE "private",
               ", max-age=",
               IF last.cacheTtlSec = NoTtl THEN "3600" ELSE ToString(last.cacheTtlSec[1]) >>

\* witness of C21: an object with no policy was downloaded with no TTL given
C21_Witness ==
    /\ last.op = "download" /\ last.status = 200
    /\ last.aclPolicy = Null /\ last.cacheTtlSec = NoTtl
    /\ last.cacheControl = <<"private", ", max-age=", "3600">>

\* the first segment of a path and what follows it, one leading slash trimmed
FirstSegment(path) == Split(TrimLeadingSlash(path), "/")[1]

Remainder(path) == Join(Slice(Split(TrimLeadingSlash(path), "/"), 1), Slash)

\* C22: when parse succeeds with a default bucket configured and the first
\* segment is '.private' or 'public', it returns the default bucket and the
\* marker, a slash and the remainder as object key; for every other first
\* segment, and with no default bucket, it returns the first segment and the
\* remainder.
C22_RemappingIsTableDriven ==
    (last.op = "parse" /\ last.out.ok) =>
        IF /\ env.DEFAULT_OBJECT_STORAGE_BUCKET_ID # Empty
           /\ FirstSegment(last.in) \in {DotPrivate, PublicMarker}
        THEN last.out.val =
                [bucketName |-> env.DEFAULT_OBJECT_STORAGE_BUCKET_ID,
                 objectName |-> FirstSegment(last.in) \o Slash \o Remainder(last.in)]
        ELSE last.out.val =
                [bucketName |-> FirstSegment(last.in), objectName |-> Remainder(last.in)]

\* witness of C22: a path under the marker 'public' was parsed with a default
\* bucket configured
C22_Witness ==
    /\ last.op = "parse" /\ last.out.ok
    /\ env.DEFAULT_OBJECT_STORAGE_BUCKET_ID = MyBucket
    /\ FirstSegment(last.in) = PublicMarker
    /\ Remainder(last.in) # Empty
    /\ last.out.val.bucketName = MyBucket

\* C23: under the sidecar, an upload grant fails whenever the broker answers
\* without success or cannot be reached, and never succeeds without a
\* signed URL.
C23_SidecarFailuresRaise ==
    (last.op = "grant" /\ ~last.isExternalDeployment) =>
        /\ last.signer \in {"rejected", "unreachable"} => ~last.out.ok
        /\ last.out.ok => last.out.val.uploadURL # UndefinedUrl

\* C24: after the read stream has failed with the headers sent, no status and
\* no header is set again and the response is eventually terminated; a
\* failure before the headers are sent is answered 500.
C24_StreamFailureEndsResponse ==
    /\ [][ /\ req.pc = "failed" =>
                 /\ req'.status = req.status
                 /\ req'.cacheControl = req.cacheControl
                 /\ req'.maxAge = req.maxAge
           /\ (req.pc = "stream" /\ ~req.headersSent /\ req'.stream = "errored") =>
                 req'.status = 500 ]_vars
    /\ (req.pc = "failed") ~> (req.res \in {"ended", "closed"})

\* C25: when the caller disconnects while a download is streaming, the read
\* stream of the backend is eventually aborted.
C25_DisconnectAbortsBackendRead ==
    (req.res = "closed") ~> (req.stream \in {"aborted", "none"})

\* C26: no issueUploadGrant, resolveEntity or assignPolicy (normalize) call of
\* the running process fails for a missing private object directory.
C26_NoConfigErrorPerRequest ==
    (last.op \in {"grant", "resolve", "assign"} /\ ~last.out.ok) =>
        last.out.message # "PRIVATE_OBJECT_DIR not set"

\* C27: the visibility term of the Cache-Control header of a download is the
\* one of the policy its access decision was taken on: once the header of an
\* allowed GET is set, it says public exactly when the policy read by the
\* decision was public, whatever was assigned to the object in between.
C27_HeaderFollowsDecision ==
    (req.canAccess = "allow" /\ req.cacheControl # "unset") =>
        (req.cacheControl = "public" <=> HasPolicy(req.decidedOn, "public"))

\* the sessions the middleware may accept: a password session with userId and
\* isAdmin that is the fallback admin's or an admin row of the users table,
\* or otherwise an OIDC login
AcceptableSession(session) ==
    IF session.userId # Undefined /\ session.isAdmin
    THEN \/ session.isFallbackAdmin /\ session.userId = FALLBACK_ADMIN.id
         \/ \E u \in users : u.id = session.userId /\ u.isAdmin
    ELSE session.sub # Undefined

\* the steps of a GET at which the handler has called the service
GetInService == {"resolve", "decide", "download", "stream", "failed", "dropped"}

LoginFoundUser ==
    /\ last.op = "login"
    /\ last.email # "" /\ last.password # ""
    /\ last.dbOk
    /\ \E u \in users : u.email = last.email

FallbackCredentials ==
    last.email = FALLBACK_ADMIN.email /\ last.password = FALLBACK_ADMIN.password

\* C29 as stated: when a row with the submitted email exists and the lookup
\* succeeds, the fallback identity is not used, the login succeeds only on the
\* row's stored hash and admin flag, and the fallback credentials are answered
\* 401.
C29_FallbackCredentialsRejected ==
    LoginFoundUser =>
        /\ last.identity # "fallback"
        /\ \A u \in users :
              (u.email = last.email /\ last.status = 200) =>
                  (u.isAdmin /\ u.passwordHash = hashPassword(last.password))
        /\ FallbackCredentials => last.status = 401

\* C29, amended: the fallback identity is used only with the fallback
\* credentials and only when the lookup by email found no row or failed; when
\* a row with the submitted email exists and the lookup succeeds, the login
\* answers 200 exactly when the row is an admin's and its stored hash is the
\* hash of the submitted password, the session then carries the row's id, and
\* every other login answers 401. The fallback credentials are therefore
\* answered 401 unless the row is an admin's and stores the hash of the
\* fallback password, and then the login is the row's, not the fallback's.
C29_FallbackOnlyWithoutUser ==
    /\ (last.op = "login" /\ last.identity = "fallback") =>
           /\ FallbackCredentials
           /\ ~last.dbOk \/ ~\E u \in users : u.email = last.email
           /\ loginSession.userId = FALLBACK_ADMIN.id
    /\ LoginFoundUser =>
           \A u \in users :
              u.email = last.email =>
                 /\ last.identity # "fallback"
                 /\ last.status \in {200, 401}
                 /\ last.status = 200 <=>
                        (u.isAdmin /\ u.passwordHash = hashPassword(last.password))
                 /\ last.status = 200 =>
                        /\ loginSession.userId = u.id
                        /\ loginSession.userId # FALLBACK_ADMIN.id
                 /\ (FallbackCredentials /\ last.status # 401) =>
                        (u.isAdmin /\ u.passwordHash = hashPassword(FALLBACK_ADMIN.password))

\* the fallback credentials are turned away because the table holds a row
\* with the fallback email and another password
C29_Witness ==
    /\ LoginFoundUser
    /\ FallbackCredentials
    /\ last.status = 401
    /\ loginSession.userId # FALLBACK_ADMIN.id

\* whether a login with these credentials is answered 200 when the lookup
\* answers
LoginAccepted(email, password) ==
    handlePasswordLogin(email, password, TRUE, AnonymousSession).status = 200

\* the rows of the table that had no row of the same id or email before
InsertedRows ==
    { v \in users' : ~\E u \in users : u.id = v.id \/ u.email = v.email }

\* C30: a change of the users table leaves every row that existed, found
\* again by its id or else by its email, with the passwordHash and isAdmin it
\* had; createAdminUser for an email that already has a row leaves a login
\* with that email and the given password accepted exactly if it was accepted
\* before; and a row that is new carries the passwordHash and isAdmin of the
\* input of the upsert that inserted it.
C30_UpsertKeepsCredentials ==
    [][ users' # users =>
          /\ \A u \in users :
                \E v \in users' :
                   /\ v.id = u.id \/ v.email = u.email
                   /\ v.passwordHash = u.passwordHash
                   /\ v.isAdmin = u.isAdmin
          /\ (/\ last'.op = "createAdminUser"
              /\ \E u \in users : u.email = last'.email)
             => (LoginAccepted(last.email, last.password))'
                   = LoginAccepted(last'.email, last'.password)
          /\ \A v \in InsertedRows :
                /\ last'.matched = "none"
                /\ last'.op = "createAdminUser" =>
                       /\ v.email = last'.email
                       /\ v.passwordHash = hashPassword(last'.password)
                       /\ v.isAdmin
                /\ last'.op = "upsertUser" => v = last'.in ]_vars

\* createAdminUser has found a row with its email, and a login with the
\* email and password it was given is turned away
C30_Witness ==
    /\ last.op = "createAdminUser"
    /\ last.matched = "email"
    /\ \E u \in users : u.email = last.email /\ u.id = last.id
    /\ ~LoginAccepted(last.email, last.password)

\* the private directory and the raw path of the scenario of C10
ScenarioDir == Slash \o MyBucket \o Slash \o DotPrivate

ScenarioRawPath == ScenarioDir \o Slash \o Uploads \o Slash \o Abc123

\* the path normalize looks at: the input itself for a raw path, the URL's
\* pathname less the default-bucket prefix for a storage URL
PathOf(x) ==
    IF ~IsStorageUrl(x) THEN x
    ELSE LET pathname == UrlPathname(x)
             bucketPrefix == Slash \o env.DEFAULT_OBJECT_STORAGE_BUCKET_ID \o Slash
         IN  IF env.DEFAULT_OBJECT_STORAGE_BUCKET_ID # Empty /\ StartsWith(pathname, bucketPrefix)
             THEN Slice(pathname, Len(bucketPrefix)) ELSE pathname

DirWithSlash ==
    IF EndsWith(env.PRIVATE_OBJECT_DIR, Slash) THEN env.PRIVATE_OBJECT_DIR
    ELSE env.PRIVATE_OBJECT_DIR \o Slash

====
